---- MODULE Spec2Model ----
(***************************************************************************)
(* Voice-agent bridge of Agri-Agents.                                      *)
(*                                                                         *)
(*   Spec     one call session of src/Twilio/websocket.js: the telephony   *)
(*            WebSocket handlers, the STT upstream handlers, the silence   *)
(*            timer and the LLM/TTS pipeline (handleUserUtterance).        *)
(*   SpecStt  the STT upstream of a session under any sequence of control  *)
(*            messages, a repeated start included.                         *)
(*   SpecTTS  the process-wide TTS queue of src/services/tts.service.js.   *)
(*   SpecFilter    isFillerOrTooShort applied to cased, padded and         *)
(*                 punctuated texts.                                       *)
(*   SpecPlayback  the 20 ms chunk loop over buffers of every even length. *)
(*   SpecRec       the raw recording of a session and its conversion.      *)
(*   SpecWelcome   the welcome and the replies under a repeated start.     *)
(*   SpecAudio     the PCM buffer of a session and what goes upstream.     *)
(*   SpecSegmenter the segmenter over the deltas of a stream, and the      *)
(*                 playback loop over the segments, with the TTS jobs.     *)
(*   SpecPipeline  the pipelines of the silence timer and of the close     *)
(*                 fallback, with fairness for the LLM and the TTS.        *)
(*                                                                         *)
(* JavaScript runs every handler to completion; an asynchronous function   *)
(* is cut at its awaits.  One action is one handler, one timer callback or *)
(* one continuation after an await, together with the promise reactions    *)
(* (microtasks) it schedules.                                              *)
(***************************************************************************)
EXTENDS Integers, Sequences, FiniteSets, TLC

(***************************************************************************)
(* Bounds of the model.                                                    *)
(***************************************************************************)
MaxTurns == 2        \* executions of handleUserUtterance in flight at once
MaxConns == 2        \* STT upstream sockets alive at once
MaxHistory == 2      \* turns in the history when a user turn is pushed
MaxTranscripts == 2  \* length of state.transcripts
MaxWelcomes == 1     \* welcome syntheses pending at once
MaxBuffered == 2     \* media payloads held in state.pcmBuffer
MaxJobs == 3         \* textToSpeech calls per process (SpecTTS)
MaxSamples == 500    \* 16-bit samples of a synthesised buffer (SpecPlayback)
MaxRecordings == 2   \* raw files one session creates (SpecRec)
MaxFrames == 4
MaxDeltas == 3       \* inbound media frames of a session (SpecAudio)

(***************************************************************************)
(* Program constants.                                                      *)
(***************************************************************************)
MIN_UTTERANCE_LENGTH == 8
SARVAM_BUFFER_MS == 200
PCM_BYTES_PER_MS == 16
BYTES_PER_CHUNK == 320
MAX_RETRIES == 2
MIN_TTS_WORDS == 5
TTS_FIRST_CHUNK_WORDS == 15
TTS_MIN_WORDS == 5
NORMAL_CLOSURE == 1000

(***************************************************************************)
(* Strings are sequences of one-character strings, so that trimming,       *)
(* lower-casing and length are computed and not assumed.                   *)
(***************************************************************************)
Whitespace == {" ", "\t", "\n", "\r"}
Punct == {".", "!", "?", ","}

UpperLetters ==
    << "A", "B", "C", "D", "E", "F", "G", "H", "I", "J", "K", "L", "M",
       "N", "O", "P", "Q", "R", "S", "T", "U", "V", "W", "X", "Y", "Z" >>
LowerLetters ==
    << "a", "b", "c", "d", "e", "f", "g", "h", "i", "j", "k", "l", "m",
       "n", "o", "p", "q", "r", "s", "t", "u", "v", "w", "x", "y", "z" >>

\* the table that takes each letter of from to the letter of to at the same
\* place
Table(from, to) ==
    [c \in {from[i] : i \in 1..Len(from)} |->
        to[CHOOSE i \in 1..Len(from) : from[i] = c]]
LowerCaseOf == Table(UpperLetters, LowerLetters)
UpperCaseOf == Table(LowerLetters, UpperLetters)

Lower(c) == IF c \in DOMAIN LowerCaseOf THEN LowerCaseOf[c] ELSE c

ToLowerCase(s) == [i \in 1..Len(s) |-> Lower(s[i])]

RECURSIVE TrimStart(_)
TrimStart(s) ==
    IF s # <<>> /\ Head(s) \in Whitespace THEN TrimStart(Tail(s)) ELSE s

RECURSIVE TrimEnd(_)
TrimEnd(s) ==
    IF s # <<>> /\ s[Len(s)] \in Whitespace
    THEN TrimEnd(SubSeq(s, 1, Len(s) - 1))
    ELSE s

Trim(s) == TrimEnd(TrimStart(s))

\* replace(/[.!?,]+$/, ""): drop the trailing run of punctuation
RECURSIVE StripTrailingPunct(_)
StripTrailingPunct(s) ==
    IF s # <<>> /\ s[Len(s)] \in Punct
    THEN StripTrailingPunct(SubSeq(s, 1, Len(s) - 1))
    ELSE s

FILLER_WORDS ==
    { <<"o","k","a","y">>, <<"o","k">>, <<"h","m">>, <<"h","m","m">>,
      <<"h","a","a","n">>, <<"h","a","n">>, <<"y","e","s">>, <<"n","o">>,
      <<"r","i","g","h","t">>, <<"a","h","a">>, <<"u","h">>, <<"u","m">>,
      <<"o","h">>, <<"s","u","r","e">>, <<"a","l","r","i","g","h","t">>,
      <<"g","o","o","d">>, <<"f","i","n","e">>, <<"t","h","a","n","k","s">>,
      <<"t","h","a","n","k"," ","y","o","u">> }

\* a filter that compares without dropping the trailing punctuation (a
\* seeded fault: FilterDecides must reject it)
isFillerOrTooShortUnstripped(transcript) ==
    IF transcript = <<>> \/ Len(transcript) < MIN_UTTERANCE_LENGTH THEN TRUE
    ELSE ToLowerCase(Trim(transcript)) \in FILLER_WORDS

isFillerOrTooShort(transcript) ==
    IF transcript = <<>> \/ Len(transcript) < MIN_UTTERANCE_LENGTH THEN TRUE
    ELSE StripTrailingPunct(ToLowerCase(Trim(transcript))) \in FILLER_WORDS

\* the transcripts the STT upstream delivers in the model
T_okay == <<"o","k","a","y">>
T_weather ==
    <<"h","o","w"," ","i","s"," ","t","h","e"," ","w","e","a","t","h","e","r">>
Texts == {T_okay, T_weather}
NoText == <<>>



(***************************************************************************)
(* State of one call session (createConnectionState) and of the services   *)
(* it uses.  The byte counter the code keeps for its log lines             *)
(* (totalBytes) is not part of this state.                                 *)
(***************************************************************************)
VARIABLES
    sarvamApiKey,         \* sarvamConfig.sarvamApiKey is set (sarvamClient # null)
    stopped,              \* state.stopped
    aborted,              \* state.abortController.signal.aborted
    wsOpen,               \* state.ws.readyState = 1
    streamSid,            \* state.streamSid
    pcmBufferBytes,       \* state.pcmBufferBytes
    sarvamSocket,         \* state.sarvamSocket: a socket, or NoConn
    sarvamHadError,       \* state.sarvamHadError
    conns,                \* the STT upstream sockets of the session
    conversationHistory,  \* state.conversationHistory
    lastTranscript,       \* state.lastTranscript
    transcripts,          \* state.transcripts
    silenceTimer,         \* state.silenceTimer # null
    pipelineProcessing,   \* state.pipelineProcessing
    llmTurns,             \* the executions of handleUserUtterance awaiting
                          \* the LLM stream: how many of each kind
    ttsWaiters,           \* the callers awaiting textToSpeech in queue order:
                          \* playWelcome, and the executions of
                          \* handleUserUtterance in their playback loop
    out,                  \* media messages written to state.ws by the last step
    lastEvent,            \* the handler that changed the session last
                          \* (history variable)
    flushedBy,            \* the trigger that reached the LLM first since the
                          \* last transcript arrived (history variable)
    flushedTwice,         \* speech_end and the silence timer both reached the
                          \* LLM since the last transcript (history variable)
    lateHandled,          \* a transcript that arrived during a turn was
                          \* handed to the LLM (history variable)
    cancelledMidStream,   \* the session was stopped while an LLM stream was
                          \* in progress (history variable)
    dark,                 \* an upstream closed with a code other than 1000
                          \* or after an error message (history variable)
    ttsQueue,             \* tts.service.js ttsQueue: the job whose chain it is
    jobs,                 \* the textToSpeech calls of the process
    nJobs,                \* how many were made
    filterCall,           \* a call of isFillerOrTooShort: argument and result
    playback,             \* a run of the 20 ms chunk loop over one buffer
    recording,            \* the raw recording of the session and its files
    replyPlayed,          \* a media message of a reply was sent (history
                          \* variable of SpecWelcome)
    callerAudio,          \* state.pcmBuffer, and the caller audio received
                          \* and passed upstream so far (history)
    segmenter             \* fullResponse, buffer and ttsSegments of one
                          \* execution of handleUserUtterance

ttsVars == <<ttsQueue, jobs, nJobs>>

\* the parts of the program that the specifications of the session and of
\* the TTS queue leave aside
unitVars ==
    <<filterCall, playback, recording, replyPlayed, callerAudio, segmenter>>

sessionVars ==
    << sarvamApiKey, stopped, aborted, wsOpen, streamSid, pcmBufferBytes,
       sarvamSocket, sarvamHadError, conns, conversationHistory,
       lastTranscript, transcripts, silenceTimer, pipelineProcessing,
       llmTurns, ttsWaiters, out, lastEvent, flushedBy, flushedTwice,
       lateHandled, cancelledMidStream, dark >>

vars == <<sessionVars, ttsVars, unitVars>>

NoConn == 0                \* state.sarvamSocket = null
NoSid == "null"            \* state.streamSid = null
StreamSids == {"MZabc"}
CloseCodes == {NORMAL_CLOSURE, 1003}
MediaSizes == {800}        \* mu-law bytes of one inbound media payload (100 ms)
AudioLens == {500}         \* PCM bytes of a synthesised buffer
SegCounts == {1, 2}        \* ttsSegments.length of a non-empty reply
Null == 0                  \* textToSpeech resolved with null

ConnIds == 1..MaxConns
JobIds == 1..MaxJobs
NoJob == 0                 \* the initial Promise.resolve() of ttsQueue

NoSocket == [status |-> "none", err |-> FALSE]
\* an execution of handleUserUtterance: its user message, and whether its
\* caller set pipelineProcessing and clears it when the execution returns
Turn(t, g) == [text |-> t, guarded |-> g]
TurnKinds == {Turn(Trim(t), g) : t \in Texts, g \in BOOLEAN}
\* a caller awaiting textToSpeech: left is the number of segments a reply has
\* still to play, this one included
Welcome == [kind |-> "welcome", turn |-> Turn(NoText, FALSE), left |-> 0]
Reply(turn, left) == [kind |-> "reply", turn |-> turn, left |-> left]
\* what a step sends: media messages to the caller (their number and the
\* streamSid they carry) and a transcribe() call to the STT upstream
NoOut == [src |-> "none", frames |-> 0, sid |-> NoSid, transcribe |-> FALSE]
Media(src, frames) ==
    [NoOut EXCEPT !.src = src, !.frames = frames,
                  !.sid = IF frames > 0 THEN streamSid ELSE NoSid]
NoCall == [word |-> NoText, input |-> NoText, result |-> "none"]
NoPlayback == [len |-> 0, j |-> 0, sent |-> <<>>, done |-> TRUE, live |-> FALSE]
\* the recording of a session.  Its files are numbered in the order
\* ensureRawStream names them: rawStream is the file state.rawStream writes
\* (0 for null), path the file state.rawPath and state.wavPath name (0 for
\* ""), raw and wav the files on disk, media whether mediaCount > 0,
\* finalize the await finalizeAndConvert is at, arg the file its pending fs
\* call was given, unlinks the files the close handler asked to remove
RecIds == 1..MaxRecordings
NoRecording ==
    [rawStream |-> 0, path |-> 0,
     raw |-> [i \in RecIds |-> "none"], wav |-> [i \in RecIds |-> FALSE],
     media |-> FALSE, finalize |-> "idle", arg |-> 0, unlinks |-> {}]
\* the caller audio of a session: pcmBuffer is state.pcmBuffer, a list of
\* chunks; inbound the decoded media frames in arrival order; upstream the
\* chunks of the transcribe() calls that returned, in call order; lastSend
\* and payload the transcribe() call of the last step
\* one execution of handleUserUtterance from its LLM stream on: i is the
\* segment whose synthesis the playback loop awaits (0: none), played the
\* segments whose frames were sent to the caller, in the order of sending
NoSegmenter ==
    [fullResponse |-> <<>>, buffer |-> <<>>, ttsSegments |-> <<>>,
     deltas |-> 0, done |-> FALSE, i |-> 0, played |-> <<>>]

NoAudio ==
    [pcmBuffer |-> <<>>, inbound |-> <<>>, upstream |-> <<>>,
     lastSend |-> "none", payload |-> <<>>]
\* a call of textToSpeech: pred is the promise its job is chained on, last
\* the outcome of the latest provider call, result what the caller's promise
\* resolved with
IdleJob ==
    [state |-> "none", pred |-> NoJob, text |-> NoText, attempt |-> 0,
     last |-> "none", result |-> "pending"]
Event(n) == [name |-> n, code |-> 0, err |-> FALSE, reconnect |-> FALSE]

\* a transcript held by the assembler; late records whether a transcript the
\* filter accepts arrived while an execution of handleUserUtterance was in
\* flight
Entry(t, l) == [text |-> t, late |-> l /\ ~isFillerOrTooShort(t)]
NoEntry == Entry(NoText, FALSE)

RECURSIVE Sum(_, _)
Sum(f, S) ==
    IF S = {} THEN 0
    ELSE LET x == CHOOSE y \in S : TRUE IN f[x] + Sum(f, S \ {x})

Streaming == Sum(llmTurns, TurnKinds)
Playing == Cardinality({k \in 1..Len(ttsWaiters) : ttsWaiters[k].kind = "reply"})
\* the executions of handleUserUtterance that pushed their user turn and
\* have not returned
InFlightCount == Streaming + Playing
TurnInFlight == InFlightCount > 0

\* createConnectionState, and the history variables
InitSession ==
    /\ sarvamApiKey \in BOOLEAN
    /\ stopped = FALSE
    /\ aborted = FALSE
    /\ wsOpen = TRUE
    /\ streamSid = NoSid
    /\ pcmBufferBytes = 0
    /\ sarvamSocket = NoConn
    /\ sarvamHadError = FALSE
    /\ conns = [c \in ConnIds |-> NoSocket]
    /\ conversationHistory = <<>>
    /\ lastTranscript = NoEntry
    /\ transcripts = <<>>
    /\ silenceTimer = FALSE
    /\ pipelineProcessing = FALSE
    /\ llmTurns = [k \in TurnKinds |-> 0]
    /\ ttsWaiters = <<>>
    /\ out = NoOut
    /\ lastEvent = Event("init")
    /\ flushedBy = "none"
    /\ flushedTwice = FALSE
    /\ lateHandled = FALSE
    /\ cancelledMidStream = FALSE
    /\ dark = FALSE

\* let ttsQueue = Promise.resolve()
InitTts ==
    /\ ttsQueue = NoJob
    /\ jobs = [j \in JobIds |-> IdleJob]
    /\ nJobs = 0

InitUnits ==
    /\ filterCall = NoCall
    /\ playback = NoPlayback
    /\ recording = NoRecording
    /\ replyPlayed = FALSE
    /\ callerAudio = NoAudio
    /\ segmenter = NoSegmenter

Init == InitSession /\ InitTts /\ InitUnits

(***************************************************************************)
(* Helpers of the session.                                                 *)
(***************************************************************************)
\* transcripts.reduce((a, b) => (a.length >= b.length ? a : b))
RECURSIVE ReduceLongest(_, _)
ReduceLongest(a, rest) ==
    IF rest = <<>> THEN a
    ELSE ReduceLongest(IF Len(a.text) >= Len(Head(rest).text) THEN a ELSE Head(rest),
                       Tail(rest))

\* state.transcripts.length > 0 ? longest : state.lastTranscript
toProcess ==
    IF Len(transcripts) > 0
    THEN ReduceLongest(Head(transcripts), Tail(transcripts))
    ELSE lastTranscript

\* a filter that lets every non-blank text through (a seeded fault:
\* FilterRejectsQuietly must reject it)
AcceptedUnfiltered(e) == Trim(e.text) # <<>>

\* toProcess?.trim() && !isFillerOrTooShort(toProcess)
Accepted(e) == Trim(e.text) # <<>> /\ ~isFillerOrTooShort(e.text)

\* conversationHistory.pop()
Pop(h) == IF h = <<>> THEN h ELSE SubSeq(h, 1, Len(h) - 1)

\* flushPcmBufferToSarvam: the bytes left in the buffer; sent tells whether
\* transcribe() returned or threw
Transcribes(sock, socks, bytes) ==
    IF sock = NoConn \/ bytes = 0 THEN FALSE ELSE socks[sock].status = "open"

\* a flush that does not reset the byte count (a seeded fault:
\* BufferBelowThreshold must reject it)
flushPcmBufferToSarvamKeep(sock, socks, bytes, sent) == bytes

flushPcmBufferToSarvam(sock, socks, bytes, sent) ==
    IF sock = NoConn \/ bytes = 0 THEN bytes
    ELSE IF socks[sock].status # "open" THEN bytes
    ELSE IF sent THEN 0 ELSE bytes

\* the slot a new socket or a new execution takes: the lowest one not in use
HasFree(f, ids, idle) == \E x \in ids : f[x] = idle
Free(f, ids, idle) ==
    CHOOSE x \in ids : f[x] = idle /\ \A y \in ids : y < x => f[y] # idle

\* connectSarvamStreaming up to its first await: the sockets of the session
\* once a new one has been requested
connectSarvamStreaming(socks) ==
    [socks EXCEPT ![Free(socks, ConnIds, NoSocket)] =
        [status |-> "connecting", err |-> FALSE]]

\* a close handler that never reconnects (a seeded fault:
\* CleanCloseFlushesAndReconnects must reject it)
ShouldReconnectNever(code) == FALSE

\* the reconnect condition of the STT close handler
ShouldReconnect(code) ==
    ~stopped /\ sarvamApiKey /\ code = NORMAL_CLOSURE /\ ~sarvamHadError

\* generateResponseStream up to its first await: the messages of the request
\* it builds from the history it is given and the user message
messages(userMessage, history) ==
    Append(history, [role |-> "user", content |-> userMessage])

\* handleUserUtterance without the stopped test of its guard (a seeded fault:
\* NoPipelineAfterStopped must reject it)
handleUserUtteranceUnguarded(e, guarded) ==
    IF Trim(e.text) = <<>>
    THEN UNCHANGED <<conversationHistory, llmTurns>>
    ELSE /\ InFlightCount < MaxTurns
         /\ Len(conversationHistory) < MaxHistory
         /\ conversationHistory' =
                Append(conversationHistory,
                       [role |-> "user", content |-> Trim(e.text)])
         /\ llmTurns' =
                [llmTurns EXCEPT ![Turn(Trim(e.text), guarded)] = @ + 1]

\* handleUserUtterance up to its first await: the guard, the user turn pushed
\* and the streaming request made by the first step of generateResponseStream
handleUserUtterance(e, guarded) ==
    IF stopped \/ Trim(e.text) = <<>>
    THEN UNCHANGED <<conversationHistory, llmTurns>>
    ELSE /\ InFlightCount < MaxTurns
         /\ Len(conversationHistory) < MaxHistory
         /\ conversationHistory' =
                Append(conversationHistory,
                       [role |-> "user", content |-> Trim(e.text)])
         /\ llmTurns' =
                [llmTurns EXCEPT ![Turn(Trim(e.text), guarded)] = @ + 1]

\* sendAudioToCaller without the test of state.streamSid (a seeded fault:
\* MediaCarriesStartSid must reject it)
sendAudioToCallerAnySid ==
    IF ~wsOpen \/ stopped THEN 0 ELSE 1

\* sendAudioToCaller: the media messages one call writes
sendAudioToCaller ==
    IF ~wsOpen \/ streamSid = NoSid \/ stopped THEN 0 ELSE 1

\* the loop over 20 ms chunks shared by playWelcome and the reply playback:
\* one call of sendAudioToCaller for each chunk of at most 320 bytes
PlayChunks(len) ==
    IF stopped THEN 0
    ELSE ((len + BYTES_PER_CHUNK - 1) \div BYTES_PER_CHUNK) * sendAudioToCaller

\* playWelcome after textToSpeech has resolved
WelcomePlayback(audio) ==
    IF audio = Null \/ stopped THEN 0 ELSE PlayChunks(audio)

\* the playback of a reply without any test of stopped (a seeded fault:
\* NoMediaAfterStopped must reject it)
ReplyPlaybackUnchecked(audio) ==
    IF audio # Null /\ wsOpen /\ streamSid # NoSid
    THEN (audio + BYTES_PER_CHUNK - 1) \div BYTES_PER_CHUNK
    ELSE 0

\* a playback loop that does not test the audio buffer (a seeded fault:
\* SegmentsSpokenInOrder must reject it)
ReplyPlaybackOfNull(audio) ==
    IF wsOpen /\ streamSid # NoSid /\ ~stopped
    THEN PlayChunks(BYTES_PER_CHUNK)
    ELSE 0

\* the body of the playback loop of handleUserUtterance after textToSpeech
\* has resolved
ReplyPlayback(audio) ==
    IF audio # Null /\ wsOpen /\ streamSid # NoSid /\ ~stopped
    THEN PlayChunks(audio)
    ELSE 0

\* what textToSpeech can resolve with
TtsResults == IF sarvamApiKey THEN {Null} \cup AudioLens ELSE {Null}

\* the welcome syntheses not yet resolved
PendingWelcomes ==
    Cardinality({k \in 1..Len(ttsWaiters) : ttsWaiters[k].kind = "welcome"})

\* the history variables of a flush by the given trigger that took entry e
Flushed(by, e, from) ==
    /\ flushedBy' = IF from = "none" THEN by ELSE from
    /\ flushedTwice' = (flushedTwice \/ {from, by} = {"speech_end", "silence"})
    /\ lateHandled' = (lateHandled \/ e.late)

(***************************************************************************)
(* Handlers of the telephony WebSocket (setupVoiceWebSocket).              *)
(***************************************************************************)
\* case "start"
WsStart(sid) ==
    /\ wsOpen
    /\ streamSid' = sid
    /\ IF sarvamApiKey
       THEN /\ HasFree(conns, ConnIds, NoSocket)
            /\ sarvamHadError' = FALSE
            /\ conns' = connectSarvamStreaming(conns)
       ELSE UNCHANGED <<sarvamHadError, conns>>
    /\ IF sid = NoSid \/ stopped
       THEN UNCHANGED ttsWaiters
       ELSE /\ PendingWelcomes < MaxWelcomes
            /\ ttsWaiters' = Append(ttsWaiters, Welcome)
    /\ out' = NoOut
    /\ lastEvent' = Event("start")
    /\ UNCHANGED << sarvamApiKey, stopped, aborted, wsOpen, pcmBufferBytes,
                    sarvamSocket, conversationHistory, lastTranscript,
                    transcripts, silenceTimer, pipelineProcessing, llmTurns,
                    flushedBy, flushedTwice, lateHandled, cancelledMidStream,
                    dark >>

\* case "media"
WsMedia(size, sent) ==
    /\ wsOpen
    /\ pcmBufferBytes < MaxBuffered * 2 * size
    /\ IF sarvamApiKey
       THEN LET bytes == pcmBufferBytes + 2 * size
                bufferMs == bytes \div PCM_BYTES_PER_MS
            IN  pcmBufferBytes' =
                    IF sarvamSocket # NoConn /\ bufferMs >= SARVAM_BUFFER_MS
                    THEN flushPcmBufferToSarvam(sarvamSocket, conns, bytes, sent)
                    ELSE bytes
       ELSE UNCHANGED pcmBufferBytes
    /\ out' = [NoOut EXCEPT !.transcribe =
                   /\ sarvamApiKey
                   /\ (pcmBufferBytes + 2 * size) \div PCM_BYTES_PER_MS
                          >= SARVAM_BUFFER_MS
                   /\ Transcribes(sarvamSocket, conns, pcmBufferBytes + 2 * size)]
    /\ lastEvent' = IF sarvamApiKey THEN Event("media") ELSE lastEvent
    /\ UNCHANGED << sarvamApiKey, stopped, aborted, wsOpen, streamSid,
                    sarvamSocket, sarvamHadError, conns, conversationHistory,
                    lastTranscript, transcripts, silenceTimer,
                    pipelineProcessing, llmTurns, ttsWaiters, flushedBy,
                    flushedTwice, lateHandled, cancelledMidStream, dark >>

\* case "stop"
WsStop(sent) ==
    /\ wsOpen
    /\ IF stopped
       THEN UNCHANGED << stopped, aborted, silenceTimer, pcmBufferBytes,
                         sarvamSocket, conns, cancelledMidStream, lastEvent >>
       ELSE /\ lastEvent' = Event("stop")
            /\ silenceTimer' = FALSE
            /\ stopped' = TRUE
            /\ aborted' = TRUE
            /\ pcmBufferBytes' =
                   flushPcmBufferToSarvam(sarvamSocket, conns, pcmBufferBytes, sent)
            /\ conns' =
                   IF sarvamSocket # NoConn
                   THEN [conns EXCEPT ![sarvamSocket].status = "closing"]
                   ELSE conns
            /\ sarvamSocket' = NoConn
            /\ cancelledMidStream' = (Streaming > 0)
    /\ out' = [NoOut EXCEPT !.transcribe =
                   ~stopped /\ Transcribes(sarvamSocket, conns, pcmBufferBytes)]
    /\ UNCHANGED << sarvamApiKey, wsOpen, streamSid, sarvamHadError,
                    conversationHistory, lastTranscript, transcripts,
                    pipelineProcessing, llmTurns, ttsWaiters, flushedBy,
                    flushedTwice, lateHandled, dark >>

\* a message handler whose default case falls into the stop case (a seeded
\* fault: IgnoredMessagesChangeNothing must reject it)
WsIgnoredAsStop == WsStop(TRUE)

\* "connected", an unknown event name, or a payload JSON.parse rejects
WsIgnored ==
    /\ wsOpen
    /\ out' = NoOut
    /\ UNCHANGED lastEvent
    /\ UNCHANGED << sarvamApiKey, stopped, aborted, wsOpen, streamSid,
                    pcmBufferBytes, sarvamSocket, sarvamHadError, conns,
                    conversationHistory, lastTranscript, transcripts,
                    silenceTimer, pipelineProcessing, llmTurns, ttsWaiters,
                    flushedBy, flushedTwice, lateHandled, cancelledMidStream,
                    dark >>

\* ws.on("close")
WsClose ==
    /\ wsOpen
    /\ wsOpen' = FALSE
    /\ stopped' = TRUE
    /\ aborted' = TRUE
    /\ silenceTimer' = FALSE
    /\ conns' =
           IF sarvamSocket # NoConn
           THEN [conns EXCEPT ![sarvamSocket].status = "closing"]
           ELSE conns
    /\ sarvamSocket' = NoConn
    /\ cancelledMidStream' =
           IF stopped THEN cancelledMidStream
           ELSE Streaming > 0
    /\ out' = NoOut
    /\ lastEvent' = Event("ws_close")
    /\ UNCHANGED << sarvamApiKey, streamSid, pcmBufferBytes, sarvamHadError,
                    conversationHistory, lastTranscript, transcripts,
                    pipelineProcessing, llmTurns, ttsWaiters, flushedBy,
                    flushedTwice, lateHandled, dark >>

(***************************************************************************)
(* The STT upstream (connectSarvamStreaming and the handlers it registers).*)
(***************************************************************************)
\* connectSarvamStreaming after waitForOpen
SttOpen(c, sent) ==
    /\ conns[c].status = "connecting"
    /\ IF stopped
       THEN /\ conns' = [conns EXCEPT ![c].status = "closing"]
            /\ UNCHANGED <<sarvamSocket, pcmBufferBytes>>
       ELSE /\ conns' = [conns EXCEPT ![c].status = "open"]
            /\ sarvamSocket' = c
            /\ pcmBufferBytes' =
                   flushPcmBufferToSarvam(c, conns', pcmBufferBytes, sent)
    /\ out' = [NoOut EXCEPT !.transcribe = ~stopped /\ pcmBufferBytes # 0]
    /\ lastEvent' = Event("stt_open")
    /\ UNCHANGED << sarvamApiKey, stopped, aborted, wsOpen, streamSid,
                    sarvamHadError, conversationHistory, lastTranscript,
                    transcripts, silenceTimer, pipelineProcessing, llmTurns,
                    ttsWaiters, flushedBy, flushedTwice, lateHandled,
                    cancelledMidStream, dark >>

\* connect() or waitForOpen() rejects: the catch of connectSarvamStreaming
SttConnectFails(c) ==
    /\ conns[c].status = "connecting"
    /\ conns' = [conns EXCEPT ![c] = NoSocket]
    /\ out' = NoOut
    /\ lastEvent' = Event("stt_fail")
    /\ UNCHANGED << sarvamApiKey, stopped, aborted, wsOpen, streamSid,
                    pcmBufferBytes, sarvamSocket, sarvamHadError,
                    conversationHistory, lastTranscript, transcripts,
                    silenceTimer, pipelineProcessing, llmTurns, ttsWaiters,
                    flushedBy, flushedTwice, lateHandled, cancelledMidStream,
                    dark >>

MessageTypes == {"transcript", "speech_start", "speech_end", "error"}

\* socket.on("message"): a message of the given type carrying the given
\* transcript text (NoText: none)
SttMessage(c, type, text) ==
    /\ conns[c].status \in {"open", "closing"}
    /\ text # NoText => Len(transcripts) < MaxTranscripts
    /\ out' = NoOut
    /\ lastEvent' = Event(type)
    /\ IF type = "error"
       THEN /\ sarvamHadError' = TRUE
            /\ conns' = [conns EXCEPT ![c].err = TRUE]
            /\ UNCHANGED << conversationHistory, lastTranscript, transcripts,
                            silenceTimer, llmTurns, flushedBy, flushedTwice,
                            lateHandled >>
       ELSE LET entry == Entry(text, TurnInFlight)
                last == IF type = "speech_start" THEN NoEntry
                        ELSE IF text # NoText THEN entry
                        ELSE lastTranscript
                toSend == IF text # NoText THEN entry ELSE last
                from == IF text # NoText THEN "none" ELSE flushedBy
            IN  /\ UNCHANGED <<sarvamHadError, conns>>
                /\ lastTranscript' = last
                /\ transcripts' =
                       IF text # NoText THEN Append(transcripts, entry)
                       ELSE transcripts
                /\ silenceTimer' =
                       IF text # NoText
                       THEN ~stopped /\ ~pipelineProcessing
                       ELSE silenceTimer
                /\ IF type = "speech_end" /\ Accepted(toSend)
                   THEN /\ handleUserUtterance(toSend, FALSE)
                        /\ IF llmTurns' # llmTurns
                           THEN Flushed("speech_end", toSend, from)
                           ELSE /\ flushedBy' = from
                                /\ UNCHANGED <<flushedTwice, lateHandled>>
                   ELSE /\ flushedBy' = from
                        /\ UNCHANGED << conversationHistory, llmTurns,
                                        flushedTwice, lateHandled >>
    /\ UNCHANGED << sarvamApiKey, stopped, aborted, wsOpen, streamSid,
                    pcmBufferBytes, sarvamSocket, pipelineProcessing,
                    ttsWaiters, cancelledMidStream, dark >>

\* socket.on("close")
SttClose(c, code) ==
    /\ conns[c].status \in {"connecting", "open", "closing"}
    /\ silenceTimer' = FALSE
    /\ IF code = NORMAL_CLOSURE /\ ~stopped /\ ~pipelineProcessing
          /\ Accepted(toProcess)
       THEN /\ transcripts' = <<>>
            /\ pipelineProcessing' = TRUE
            /\ handleUserUtterance(toProcess, TRUE)
            /\ Flushed("close", toProcess, flushedBy)
       ELSE UNCHANGED << transcripts, pipelineProcessing, conversationHistory,
                         llmTurns, flushedBy, flushedTwice, lateHandled >>
    /\ sarvamSocket' = NoConn
    /\ LET closed == [conns EXCEPT ![c] = NoSocket]
       IN  IF ShouldReconnect(code)
           THEN /\ sarvamHadError' = FALSE
                /\ conns' = connectSarvamStreaming(closed)
           ELSE /\ conns' = closed
                /\ UNCHANGED sarvamHadError
    /\ dark' = (dark \/ code # NORMAL_CLOSURE \/ conns[c].err)
    /\ out' = NoOut
    /\ lastEvent' = [name |-> "stt_close", code |-> code, err |-> conns[c].err,
                     reconnect |-> ShouldReconnect(code)]
    /\ UNCHANGED << sarvamApiKey, stopped, aborted, wsOpen, streamSid,
                    pcmBufferBytes, lastTranscript, ttsWaiters,
                    cancelledMidStream >>

\* the silence timer expires: triggerPipelineFromSilence
SilenceTimerFires ==
    /\ silenceTimer
    /\ silenceTimer' = FALSE
    /\ IF stopped \/ pipelineProcessing \/ ~Accepted(toProcess)
       THEN UNCHANGED << transcripts, pipelineProcessing, conversationHistory,
                         llmTurns, flushedBy, flushedTwice, lateHandled >>
       ELSE /\ transcripts' = <<>>
            /\ pipelineProcessing' = TRUE
            /\ handleUserUtterance(toProcess, TRUE)
            /\ Flushed("silence", toProcess, flushedBy)
    /\ out' = NoOut
    /\ lastEvent' = Event("timer")
    /\ UNCHANGED << sarvamApiKey, stopped, aborted, wsOpen, streamSid,
                    pcmBufferBytes, sarvamSocket, sarvamHadError, conns,
                    lastTranscript, ttsWaiters, cancelledMidStream, dark >>

(***************************************************************************)
(* handleUserUtterance after its awaits.                                   *)
(***************************************************************************)
\* callers without their finally (a seeded fault: FlagFollowsPipeline must
\* reject it)
ReturnWithoutFinally(turn) == UNCHANGED pipelineProcessing

\* handleUserUtterance returns; the finally of the silence and close-1000
\* callers clears pipelineProcessing
Return(turn) ==
    pipelineProcessing' = IF turn.guarded THEN FALSE ELSE pipelineProcessing

\* the stream yields a text delta: it is added to the reply, or the loop is
\* left because the session is stopped
LlmDelta(turn) ==
    /\ llmTurns[turn] > 0
    /\ IF stopped
       THEN /\ conversationHistory' = Pop(conversationHistory)
            /\ llmTurns' = [llmTurns EXCEPT ![turn] = @ - 1]
            /\ Return(turn)
            /\ lastEvent' = Event("llm_delta")
       ELSE UNCHANGED << llmTurns, conversationHistory, pipelineProcessing,
                         lastEvent >>
    /\ out' = NoOut
    /\ UNCHANGED << sarvamApiKey, stopped, aborted, wsOpen, streamSid,
                    pcmBufferBytes, sarvamSocket, sarvamHadError, conns,
                    lastTranscript, transcripts, silenceTimer, ttsWaiters,
                    flushedBy, flushedTwice, lateHandled, cancelledMidStream,
                    dark >>

\* the stream ends; n is ttsSegments.length, 0 for a reply that is empty
\* once trimmed
LlmComplete(turn, n) ==
    /\ llmTurns[turn] > 0
    /\ llmTurns' = [llmTurns EXCEPT ![turn] = @ - 1]
    /\ IF stopped
       THEN /\ conversationHistory' = Pop(conversationHistory)
            /\ Return(turn)
            /\ UNCHANGED ttsWaiters
       ELSE IF n = 0
       THEN /\ Return(turn)
            /\ UNCHANGED <<conversationHistory, ttsWaiters>>
       ELSE /\ conversationHistory' =
                   Append(conversationHistory,
                          [role |-> "assistant", content |-> <<"r">>])
            /\ ttsWaiters' = Append(ttsWaiters, Reply(turn, n))
            /\ UNCHANGED pipelineProcessing
    /\ out' = NoOut
    /\ lastEvent' = Event("llm_complete")
    /\ UNCHANGED << sarvamApiKey, stopped, aborted, wsOpen, streamSid,
                    pcmBufferBytes, sarvamSocket, sarvamHadError, conns,
                    lastTranscript, transcripts, silenceTimer, flushedBy,
                    flushedTwice, lateHandled, cancelledMidStream, dark >>

\* the request or the stream throws (AbortError or any other error)
LlmThrows(turn) ==
    /\ llmTurns[turn] > 0
    /\ llmTurns' = [llmTurns EXCEPT ![turn] = @ - 1]
    /\ conversationHistory' = Pop(conversationHistory)
    /\ Return(turn)
    /\ out' = NoOut
    /\ lastEvent' = Event("llm_throw")
    /\ UNCHANGED << sarvamApiKey, stopped, aborted, wsOpen, streamSid,
                    pcmBufferBytes, sarvamSocket, sarvamHadError, conns,
                    lastTranscript, transcripts, silenceTimer, ttsWaiters,
                    flushedBy, flushedTwice, lateHandled, cancelledMidStream,
                    dark >>

\* textToSpeech resolves for the caller at the head of the queue: the
\* continuation of playWelcome or of the playback loop of handleUserUtterance
TtsResolves(audio) ==
    /\ ttsWaiters # <<>>
    /\ LET w == Head(ttsWaiters)
       IN  IF w.kind = "welcome"
           THEN /\ out' = Media("welcome", WelcomePlayback(audio))
                /\ ttsWaiters' = Tail(ttsWaiters)
                /\ UNCHANGED pipelineProcessing
           ELSE /\ out' = Media("reply", ReplyPlayback(audio))
                /\ IF w.left > 1 /\ ~stopped
                   THEN /\ ttsWaiters' =
                               Append(Tail(ttsWaiters), Reply(w.turn, w.left - 1))
                        /\ UNCHANGED pipelineProcessing
                   ELSE /\ ttsWaiters' = Tail(ttsWaiters)
                        /\ Return(w.turn)
    /\ lastEvent' = [Event("tts_resolve") EXCEPT !.code = audio]
    /\ UNCHANGED << sarvamApiKey, stopped, aborted, wsOpen, streamSid,
                    pcmBufferBytes, sarvamSocket, sarvamHadError, conns,
                    conversationHistory, lastTranscript, transcripts,
                    silenceTimer, llmTurns, flushedBy, flushedTwice,
                    lateHandled, cancelledMidStream, dark >>

(***************************************************************************)
(* Spec: a call as the telephony provider drives it, with one start        *)
(* message; every interleaving of the control messages, the STT events,    *)
(* the silence timer, the LLM stream and the TTS results.                  *)
(***************************************************************************)
Next ==
    \/ \E sid \in StreamSids :
           /\ streamSid = NoSid
           /\ WsStart(sid)
           /\ UNCHANGED <<ttsVars, unitVars>>
    \/ \E sent \in BOOLEAN : WsStop(sent) /\ UNCHANGED <<ttsVars, unitVars>>
    \/ WsIgnored /\ UNCHANGED <<ttsVars, unitVars>>
    \/ WsClose /\ UNCHANGED <<ttsVars, unitVars>>
    \/ \E c \in ConnIds, sent \in BOOLEAN : SttOpen(c, sent) /\ UNCHANGED <<ttsVars, unitVars>>
    \/ \E c \in ConnIds : SttConnectFails(c) /\ UNCHANGED <<ttsVars, unitVars>>
    \/ \E c \in ConnIds, type \in MessageTypes, text \in Texts \cup {NoText} :
           /\ type \in {"speech_start", "error"} => text = NoText
           /\ type = "transcript" => text # NoText
           /\ SttMessage(c, type, text)
           /\ UNCHANGED <<ttsVars, unitVars>>
    \/ \E c \in ConnIds, code \in CloseCodes : SttClose(c, code) /\ UNCHANGED <<ttsVars, unitVars>>
    \/ SilenceTimerFires /\ UNCHANGED <<ttsVars, unitVars>>
    \/ \E turn \in TurnKinds : LlmDelta(turn) /\ UNCHANGED <<ttsVars, unitVars>>
    \/ \E turn \in TurnKinds, n \in {0} \cup SegCounts :
           LlmComplete(turn, n) /\ UNCHANGED <<ttsVars, unitVars>>
    \/ \E turn \in TurnKinds : LlmThrows(turn) /\ UNCHANGED <<ttsVars, unitVars>>
    \/ \E audio \in TtsResults : TtsResolves(audio) /\ UNCHANGED <<ttsVars, unitVars>>

Spec == Init /\ [][Next]_vars

(***************************************************************************)
(* SpecStt: the STT upstream under any sequence of control messages, a     *)
(* repeated start included, with caller audio forwarded upstream.  The     *)
(* upstream recognises nothing but the filler "okay", so no LLM turn       *)
(* starts.                                                                 *)
(***************************************************************************)
Fillers == {t \in Texts : isFillerOrTooShort(t)}

\* msg.start?.streamSid || msg.streamSid of a start message: one of two
\* identifiers, or none
StartSids == StreamSids \cup {"MZdef", NoSid}

NextStt ==
    \/ \E sid \in StartSids : WsStart(sid) /\ UNCHANGED <<ttsVars, unitVars>>
    \/ \E size \in MediaSizes, sent \in BOOLEAN :
           WsMedia(size, sent) /\ UNCHANGED <<ttsVars, unitVars>>
    \/ \E sent \in BOOLEAN : WsStop(sent) /\ UNCHANGED <<ttsVars, unitVars>>
    \/ WsClose /\ UNCHANGED <<ttsVars, unitVars>>
    \/ \E c \in ConnIds, sent \in BOOLEAN : SttOpen(c, sent) /\ UNCHANGED <<ttsVars, unitVars>>
    \/ \E c \in ConnIds : SttConnectFails(c) /\ UNCHANGED <<ttsVars, unitVars>>
    \/ \E c \in ConnIds, type \in MessageTypes, text \in Fillers \cup {NoText} :
           /\ type \in {"speech_start", "error"} => text = NoText
           /\ type = "transcript" => text # NoText
           /\ SttMessage(c, type, text)
           /\ UNCHANGED <<ttsVars, unitVars>>
    \/ \E c \in ConnIds, code \in CloseCodes : SttClose(c, code) /\ UNCHANGED <<ttsVars, unitVars>>
    \/ SilenceTimerFires /\ UNCHANGED <<ttsVars, unitVars>>
    \/ \E audio \in TtsResults : TtsResolves(audio) /\ UNCHANGED <<ttsVars, unitVars>>

SpecStt == Init /\ [][NextStt]_vars

(***************************************************************************)
(* SpecPipeline: the pipelines that the silence timer and the close-1000   *)
(* fallback start, under the assumption that every LLM stream ends and     *)
(* every synthesis resolves.                                               *)
(***************************************************************************)
NextPipeline ==
    \/ \E sid \in StreamSids :
           /\ streamSid = NoSid
           /\ WsStart(sid)
           /\ UNCHANGED <<ttsVars, unitVars>>
    \/ WsStop(TRUE) /\ UNCHANGED <<ttsVars, unitVars>>
    \/ \E c \in ConnIds : SttOpen(c, TRUE) /\ UNCHANGED <<ttsVars, unitVars>>
    \/ \E c \in ConnIds, type \in {"transcript", "speech_end"} :
           SttMessage(c, type, T_weather) /\ UNCHANGED <<ttsVars, unitVars>>
    \/ \E c \in ConnIds, code \in CloseCodes :
           SttClose(c, code) /\ UNCHANGED <<ttsVars, unitVars>>
    \/ SilenceTimerFires /\ UNCHANGED <<ttsVars, unitVars>>
    \/ \E turn \in TurnKinds : LlmDelta(turn) /\ UNCHANGED <<ttsVars, unitVars>>
    \/ \E turn \in TurnKinds, n \in {0} \cup SegCounts :
           LlmComplete(turn, n) /\ UNCHANGED <<ttsVars, unitVars>>
    \/ \E turn \in TurnKinds : LlmThrows(turn) /\ UNCHANGED <<ttsVars, unitVars>>
    \/ \E audio \in TtsResults : TtsResolves(audio) /\ UNCHANGED <<ttsVars, unitVars>>

SpecPipeline ==
    /\ Init
    /\ [][NextPipeline]_vars
    /\ \A turn \in TurnKinds :
           WF_vars(\E n \in {0} \cup SegCounts :
                       LlmComplete(turn, n) /\ UNCHANGED <<ttsVars, unitVars>>)
    /\ WF_vars(\E audio \in TtsResults :
                   TtsResolves(audio) /\ UNCHANGED <<ttsVars, unitVars>>)

(***************************************************************************)
(* The process-wide TTS queue (services/tts.service.js).                   *)
(***************************************************************************)
\* texts handed to textToSpeech: five words, and four words between blanks
S_five == <<"a", " ", "b", " ", "c", " ", "d", " ", "e">>
S_four == <<" ", "a", "b", " ", "c", " ", " ", "d", " ", "e", " ">>
Segments == {S_five, S_four}

\* clean.split(/\s+/).filter(Boolean).length
WordCount(s) ==
    Cardinality({i \in 1..Len(s) :
                    /\ s[i] \notin Whitespace
                    /\ (i = 1 \/ s[i - 1] \in Whitespace)})

ConvertOutcomes == {"audio", "empty", "throw"}

\* a queue that forgets the chain of a new call (a seeded fault:
\* TtsJobsSerial must reject it)
Unchained(tail, j) == tail

\* the promise the next call is chained on once call j has been chained on
\* tail: ttsQueue = ttsQueue.then(...).then(resolve).catch(...)
Chained(tail, j) == j

\* a promise is settled: the initial Promise.resolve(), or the chain of a
\* call whose job finished and whose caller was resolved
Settled(p) == IF p = NoJob THEN TRUE ELSE jobs[p].state = "done"

\* textToSpeechWithRetry without the test for an empty audio list (a seeded
\* fault: TtsNeverRejects must reject it)
ConvertResultUnchecked(outcome) == "buffer"

\* what textToSpeechWithRetry returns for the response of convert
ConvertResult(outcome) == IF outcome = "audio" THEN "buffer" ELSE "null"

Finished(job, result) == [job EXCEPT !.state = "done", !.result = result]

\* textToSpeech(text): the executor of the new promise, run synchronously
Enqueue(text) ==
    /\ nJobs < MaxJobs
    /\ nJobs' = nJobs + 1
    /\ jobs' = [jobs EXCEPT ![nJobs + 1] =
                   [IdleJob EXCEPT !.state = "queued", !.pred = ttsQueue,
                                   !.text = text]]
    /\ ttsQueue' = Chained(ttsQueue, nJobs + 1)

\* a call of textToSpeech by any caller
textToSpeech(text) ==
    /\ Enqueue(text)
    /\ UNCHANGED <<sessionVars, unitVars>>

\* the chain of call j reaches textToSpeechWithRetry, which runs up to its
\* first await or returns null at once
JobStart(j) ==
    /\ jobs[j].state = "queued"
    /\ Settled(jobs[j].pred)
    /\ jobs' = [jobs EXCEPT ![j] =
                   IF ~sarvamApiKey \/ WordCount(Trim(jobs[j].text)) < MIN_TTS_WORDS
                   THEN Finished(@, "null")
                   ELSE [@ EXCEPT !.state = "calling"]]
    /\ UNCHANGED <<ttsQueue, nJobs>>
    /\ UNCHANGED <<sessionVars, unitVars>>

\* a catch block that waits and retries once more (a seeded fault:
\* OneCallAndMaxRetries must reject it)
ConvertReturnsRetrying(j, outcome) ==
    /\ jobs[j].state = "calling"
    /\ jobs' = [jobs EXCEPT ![j] =
                   LET job == [@ EXCEPT !.last = outcome]
                   IN  IF outcome # "throw"
                       THEN Finished(job, ConvertResult(outcome))
                       ELSE IF job.attempt <= MAX_RETRIES
                       THEN [job EXCEPT !.state = "backoff"]
                       ELSE Finished(job, "null")]
    /\ UNCHANGED <<ttsQueue, nJobs>>
    /\ UNCHANGED <<sessionVars, unitVars>>

\* client.textToSpeech.convert settles: audio, a response without audio, or
\* an exception
ConvertReturns(j, outcome) ==
    /\ jobs[j].state = "calling"
    /\ jobs' = [jobs EXCEPT ![j] =
                   LET job == [@ EXCEPT !.last = outcome]
                   IN  IF outcome # "throw"
                       THEN Finished(job, ConvertResult(outcome))
                       ELSE IF job.attempt < MAX_RETRIES
                       THEN [job EXCEPT !.state = "backoff"]
                       ELSE Finished(job, "null")]
    /\ UNCHANGED <<ttsQueue, nJobs>>
    /\ UNCHANGED <<sessionVars, unitVars>>

\* the RETRY_DELAY_MS timer of the catch block expires
BackoffElapsed(j) ==
    /\ jobs[j].state = "backoff"
    /\ jobs' = [jobs EXCEPT ![j] =
                   [@ EXCEPT !.state = "calling", !.attempt = @ + 1]]
    /\ UNCHANGED <<ttsQueue, nJobs>>
    /\ UNCHANGED <<sessionVars, unitVars>>

\* SpecTTS: any number of callers, of any session, enqueue texts; every
\* provider call settles and every back-off timer expires
NextTTS ==
    \/ \E text \in Segments : textToSpeech(text)
    \/ \E j \in JobIds : JobStart(j)
    \/ \E j \in JobIds, outcome \in ConvertOutcomes : ConvertReturns(j, outcome)
    \/ \E j \in JobIds : BackoffElapsed(j)

SpecTTS ==
    /\ Init
    /\ [][NextTTS]_vars
    /\ \A j \in JobIds :
           /\ WF_vars(JobStart(j))
           /\ WF_vars(\E outcome \in ConvertOutcomes : ConvertReturns(j, outcome))
           /\ WF_vars(BackoffElapsed(j))

(***************************************************************************)
(* SpecFilter: isFillerOrTooShort applied to filler words and to other     *)
(* texts, in lower case, in upper case and capitalised, followed by a run  *)
(* of punctuation and surrounded by blanks.                                *)
(***************************************************************************)
Upper(c) == IF c \in DOMAIN UpperCaseOf THEN UpperCaseOf[c] ELSE c

Cased(w, how) ==
    [i \in 1..Len(w) |->
        IF how = "upper" \/ (how = "capital" /\ i = 1) THEN Upper(w[i])
        ELSE w[i]]

\* texts that are no filler words and end in a letter
OtherWords ==
    { T_weather,
      <<"s","h","o","r","t">>,
      <<"o","k","a","y"," ","t","h","e","n">>,
      <<"o","k","a","y","o","k","a","y">>,
      <<"y","e","s","t","e","r","d","a","y">>,
      <<"t","h","a","n","k"," ","y","o","u"," ","a","l","l">> }

PunctRuns ==
    { <<>>, <<".">>, <<"!","?">>, <<",",".","!","?",",",".","!","?">> }
Pads == { <<>>, <<" ">>, <<"\t"," ">> }
LetterCases == {"lower", "upper", "capital"}

FilterCalls ==
    { [word |-> w, input |-> lead \o Cased(w, how) \o run \o trail,
       result |-> "none"] :
        w \in FILLER_WORDS \cup OtherWords, how \in LetterCases,
        run \in PunctRuns, lead \in Pads, trail \in Pads }

InitFilter ==
    /\ InitSession
    /\ InitTts
    /\ filterCall \in FilterCalls
    /\ playback = NoPlayback
    /\ recording = NoRecording
    /\ replyPlayed = FALSE
    /\ callerAudio = NoAudio
    /\ segmenter = NoSegmenter

CallFilter ==
    /\ filterCall.result = "none"
    /\ filterCall' =
           [filterCall EXCEPT !.result =
               IF isFillerOrTooShort(filterCall.input) THEN "reject"
               ELSE "accept"]
    /\ UNCHANGED <<sessionVars, ttsVars, playback, recording, replyPlayed,
                   callerAudio, segmenter>>

NextFilter == CallFilter

SpecFilter == InitFilter /\ [][NextFilter]_vars

(***************************************************************************)
(* SpecPlayback: the 20 ms chunk loop of playWelcome and of the playback   *)
(* of a reply, one iteration a step, over buffers of every even length up  *)
(* to 2 * MaxSamples bytes.  The loop runs within one handler, so no other *)
(* handler runs between two of its iterations.                             *)
(***************************************************************************)
PcmLens == {2 * k : k \in 0..MaxSamples}

\* pcmToMulawBuffer: the length of the mu-law buffer made from n bytes of
\* 16-bit PCM, one byte for each sample
pcmToMulawBuffer(n) == n \div 2

\* the end of a chunk without the clamp to the length of the buffer (a seeded
\* fault: PacerEmitsCeilFrames must reject it)
MinUnclamped(a, b) == a

\* Math.min
Min(a, b) == IF a <= b THEN a ELSE b

\* the loop is entered with a buffer of len bytes; live records whether the
\* session could take audio at that moment
BeginPlayback(len) ==
    /\ playback.done
    /\ playback' = [len |-> len, j |-> 0, sent |-> <<>>, done |-> FALSE,
                     live |-> wsOpen /\ streamSid # NoSid /\ ~stopped]
    /\ UNCHANGED <<sessionVars, ttsVars, filterCall, recording,
                   replyPlayed, callerAudio, segmenter>>

\* one test of the loop condition and, if it holds, one iteration:
\* buf.subarray(j, Math.min(j + BYTES_PER_CHUNK, buf.length)) goes to
\* sendAudioToCaller
PlaybackStep ==
    /\ ~playback.done
    /\ IF playback.j < playback.len /\ ~stopped
       THEN LET chunk == Min(playback.j + BYTES_PER_CHUNK, playback.len)
                             - playback.j
            IN  playback' =
                    [playback EXCEPT
                        !.j = @ + BYTES_PER_CHUNK,
                        !.sent = IF sendAudioToCaller = 1
                                 THEN Append(@, pcmToMulawBuffer(chunk))
                                 ELSE @]
       ELSE playback' = [playback EXCEPT !.done = TRUE]
    /\ UNCHANGED <<sessionVars, ttsVars, filterCall, recording,
                   replyPlayed, callerAudio, segmenter>>

NextPlayback ==
    \/ \E sid \in StreamSids :
           /\ playback.done
           /\ streamSid = NoSid
           /\ WsStart(sid)
           /\ UNCHANGED <<ttsVars, unitVars>>
    \/ \E len \in PcmLens : BeginPlayback(len)
    \/ PlaybackStep

SpecPlayback == Init /\ [][NextPlayback]_vars

(***************************************************************************)
(* SpecRec: the raw recording and its conversion.  The handlers of the     *)
(* telephony WebSocket are taken with what they do to the recording, and   *)
(* finalizeAndConvert and the unlink of the close handler advance one      *)
(* await at a time.  A write to a stream that has ended adds nothing.      *)
(***************************************************************************)
HasRoom(r) == r.rawStream # 0 \/ r.path < MaxRecordings

ensureRawStream(r) ==
    IF r.rawStream # 0 THEN r
    ELSE [r EXCEPT !.rawStream = r.path + 1,
                   !.path = r.path + 1,
                   !.raw[r.path + 1] = "present"]

\* finalizeAndConvert from line 96 to its next await: readFile(state.rawPath)
AfterEndStream(r) ==
    IF r.path = 0 THEN [r EXCEPT !.finalize = "done"]
    ELSE [r EXCEPT !.finalize = "reading", !.arg = r.path]

\* finalizeAndConvert up to its first await
finalizeAndConvert(r) ==
    IF r.rawStream # 0 THEN [r EXCEPT !.finalize = "ending"]
    ELSE AfterEndStream(r)

\* the close handler: rawStream.end() and unlink(rawPath)
closeRecording(r) ==
    IF r.rawStream # 0 /\ r.path # 0
    THEN [r EXCEPT !.unlinks = @ \cup {r.path}]
    ELSE r

RecStart(sid) ==
    /\ HasRoom(recording)
    /\ WsStart(sid)
    /\ recording' = ensureRawStream(recording)
    /\ UNCHANGED <<ttsVars, filterCall, playback, replyPlayed, callerAudio,
                   segmenter>>

RecMedia(size, sent) ==
    /\ HasRoom(recording)
    /\ WsMedia(size, sent)
    /\ recording' = [ensureRawStream(recording) EXCEPT !.media = TRUE]
    /\ UNCHANGED <<ttsVars, filterCall, playback, replyPlayed, callerAudio,
                   segmenter>>

RecStop(sent) ==
    /\ WsStop(sent)
    /\ recording' = IF stopped THEN recording
                    ELSE finalizeAndConvert(recording)
    /\ UNCHANGED <<ttsVars, filterCall, playback, replyPlayed, callerAudio,
                   segmenter>>

RecClose ==
    /\ WsClose
    /\ recording' = closeRecording(recording)
    /\ UNCHANGED <<ttsVars, filterCall, playback, replyPlayed, callerAudio,
                   segmenter>>

\* await endStream(state.rawStream) returns
EndStreamDone ==
    /\ recording.finalize = "ending"
    /\ recording' = AfterEndStream([recording EXCEPT !.rawStream = 0])
    /\ UNCHANGED <<sessionVars, ttsVars, filterCall, playback, replyPlayed,
                   callerAudio, segmenter>>

\* await readFile returns or throws ENOENT; writeFile(state.wavPath) follows
ReadFileDone ==
    /\ recording.finalize = "reading"
    /\ recording' =
           IF recording.raw[recording.arg] = "present"
           THEN [recording EXCEPT !.finalize = "writing", !.arg = recording.path]
           ELSE [recording EXCEPT !.finalize = "failed", !.arg = 0]
    /\ UNCHANGED <<sessionVars, ttsVars, filterCall, playback, replyPlayed,
                   callerAudio, segmenter>>

\* await writeFile returns; unlink(state.rawPath) follows
WriteFileDone ==
    /\ recording.finalize = "writing"
    /\ recording' = [recording EXCEPT !.wav[recording.arg] = TRUE,
                                      !.finalize = "unlinking",
                                      !.arg = recording.path]
    /\ UNCHANGED <<sessionVars, ttsVars, filterCall, playback, replyPlayed,
                   callerAudio, segmenter>>

Unlinked(files, id) ==
    IF files[id] = "present" THEN [files EXCEPT ![id] = "removed"] ELSE files

\* await unlink(...).catch(() => {}) returns
UnlinkDone ==
    /\ recording.finalize = "unlinking"
    /\ recording' = [recording EXCEPT !.raw = Unlinked(@, recording.arg),
                                      !.finalize = "done",
                                      !.arg = 0]
    /\ UNCHANGED <<sessionVars, ttsVars, filterCall, playback, replyPlayed,
                   callerAudio, segmenter>>

\* the unlink the close handler asked for is carried out
CloseUnlinkDone(id) ==
    /\ id \in recording.unlinks
    /\ recording' = [recording EXCEPT !.raw = Unlinked(@, id),
                                      !.unlinks = @ \ {id}]
    /\ UNCHANGED <<sessionVars, ttsVars, filterCall, playback, replyPlayed,
                   callerAudio, segmenter>>

NextRec ==
    \/ \E sid \in StreamSids : RecStart(sid)
    \/ \E size \in MediaSizes, sent \in BOOLEAN : RecMedia(size, sent)
    \/ \E sent \in BOOLEAN : RecStop(sent)
    \/ RecClose
    \/ EndStreamDone
    \/ ReadFileDone
    \/ WriteFileDone
    \/ UnlinkDone
    \/ \E id \in RecIds : CloseUnlinkDone(id)

SpecRec == Init /\ [][NextRec]_vars

(***************************************************************************)
(* SpecWelcome: the welcome and the replies of a session whose start       *)
(* message may be repeated.  The upstream stays connected and recognises   *)
(* one utterance.                                                          *)
(***************************************************************************)
PlaysReply(audio) ==
    /\ TtsResolves(audio)
    /\ replyPlayed' = (replyPlayed \/ (out'.src = "reply" /\ out'.frames > 0))
    /\ UNCHANGED <<ttsVars, filterCall, playback, recording, callerAudio,
                   segmenter>>

NextWelcome ==
    \/ \E sid \in StreamSids : WsStart(sid) /\ UNCHANGED <<ttsVars, unitVars>>
    \/ \E sent \in BOOLEAN : WsStop(sent) /\ UNCHANGED <<ttsVars, unitVars>>
    \/ \E c \in ConnIds : SttOpen(c, TRUE) /\ UNCHANGED <<ttsVars, unitVars>>
    \/ \E c \in ConnIds, type \in {"transcript", "speech_end"} :
           /\ SttMessage(c, type, T_weather)
           /\ UNCHANGED <<ttsVars, unitVars>>
    \/ SilenceTimerFires /\ UNCHANGED <<ttsVars, unitVars>>
    \/ \E turn \in TurnKinds : LlmDelta(turn) /\ UNCHANGED <<ttsVars, unitVars>>
    \/ \E turn \in TurnKinds, n \in {0} \cup SegCounts :
           LlmComplete(turn, n) /\ UNCHANGED <<ttsVars, unitVars>>
    \/ \E audio \in TtsResults : PlaysReply(audio)

SpecWelcome == Init /\ [][NextWelcome]_vars

(***************************************************************************)
(* SpecAudio: the caller audio on its way to the STT upstream.  The        *)
(* handlers that touch state.pcmBuffer or the upstream sockets are taken   *)
(* with what they do to the buffer; every media frame gets a number, and   *)
(* the chunks handed to transcribe() are recorded.                         *)
(***************************************************************************)
\* mulawToPcmBuffer: two bytes of PCM for every mu-law byte
mulawToPcmBuffer(n) == 2 * n

Quiet(a) == [a EXCEPT !.lastSend = "none", !.payload = <<>>]

\* a flush that leaves the chunks it sent in the buffer (a seeded fault:
\* UpstreamIsPrefixOfInbound must reject it)
flushPcmBufferKeeping(a, sock, socks, bytes, sent) ==
    IF sock = NoConn \/ bytes = 0 THEN Quiet(a)
    ELSE IF socks[sock].status # "open" THEN Quiet(a)
    ELSE [a EXCEPT !.upstream = @ \o a.pcmBuffer,
                   !.lastSend = "ok", !.payload = a.pcmBuffer]

\* a flush that waits for 200 ms of audio (a seeded fault:
\* HeldFramesFlushedAtOpen must reject it)
flushPcmBufferIfFull(a, sock, socks, bytes, sent) ==
    IF sock = NoConn \/ bytes \div PCM_BYTES_PER_MS < SARVAM_BUFFER_MS
    THEN Quiet(a)
    ELSE IF socks[sock].status # "open" THEN Quiet(a)
    ELSE [a EXCEPT !.upstream = @ \o a.pcmBuffer, !.pcmBuffer = <<>>,
                   !.lastSend = "ok", !.payload = a.pcmBuffer]

\* flushPcmBufferToSarvam on the buffer itself
flushPcmBuffer(a, sock, socks, bytes, sent) ==
    IF sock = NoConn \/ bytes = 0 THEN Quiet(a)
    ELSE IF socks[sock].status # "open" THEN Quiet(a)
    ELSE IF sent
    THEN [a EXCEPT !.upstream = @ \o a.pcmBuffer, !.pcmBuffer = <<>>,
                   !.lastSend = "ok", !.payload = a.pcmBuffer]
    ELSE [a EXCEPT !.lastSend = "failed", !.payload = a.pcmBuffer]

\* the media case: the chunk is decoded, pushed and, with an upstream and
\* 200 ms buffered, flushed
pushPcmChunk(a, size, sent) ==
    LET chunk == [id |-> Len(a.inbound) + 1, len |-> mulawToPcmBuffer(size)]
        heard == [a EXCEPT !.inbound = Append(@, chunk)]
        held == [heard EXCEPT !.pcmBuffer = Append(@, chunk)]
        bytes == pcmBufferBytes + chunk.len
    IN  IF ~sarvamApiKey THEN Quiet(heard)
        ELSE IF sarvamSocket # NoConn
                /\ bytes \div PCM_BYTES_PER_MS >= SARVAM_BUFFER_MS
        THEN flushPcmBuffer(held, sarvamSocket, conns, bytes, sent)
        ELSE Quiet(held)

AudioStart(sid) ==
    /\ WsStart(sid)
    /\ callerAudio' = Quiet(callerAudio)
    /\ UNCHANGED <<ttsVars, filterCall, playback, recording, replyPlayed,
                   segmenter>>

AudioMedia(size, sent) ==
    /\ Len(callerAudio.inbound) < MaxFrames
    /\ WsMedia(size, sent)
    /\ callerAudio' = pushPcmChunk(callerAudio, size, sent)
    /\ UNCHANGED <<ttsVars, filterCall, playback, recording, replyPlayed,
                   segmenter>>

AudioStop(sent) ==
    /\ WsStop(sent)
    /\ callerAudio' = IF stopped THEN Quiet(callerAudio)
                ELSE flushPcmBuffer(callerAudio, sarvamSocket, conns,
                                    pcmBufferBytes, sent)
    /\ UNCHANGED <<ttsVars, filterCall, playback, recording, replyPlayed,
                   segmenter>>

AudioClose ==
    /\ WsClose
    /\ callerAudio' = Quiet(callerAudio)
    /\ UNCHANGED <<ttsVars, filterCall, playback, recording, replyPlayed,
                   segmenter>>

AudioSttOpen(c, sent) ==
    /\ SttOpen(c, sent)
    /\ callerAudio' = IF stopped THEN Quiet(callerAudio)
                ELSE flushPcmBuffer(callerAudio, c, conns', pcmBufferBytes, sent)
    /\ UNCHANGED <<ttsVars, filterCall, playback, recording, replyPlayed,
                   segmenter>>

AudioSttConnectFails(c) ==
    /\ SttConnectFails(c)
    /\ callerAudio' = Quiet(callerAudio)
    /\ UNCHANGED <<ttsVars, filterCall, playback, recording, replyPlayed,
                   segmenter>>

AudioSttClose(c, code) ==
    /\ SttClose(c, code)
    /\ callerAudio' = Quiet(callerAudio)
    /\ UNCHANGED <<ttsVars, filterCall, playback, recording, replyPlayed,
                   segmenter>>

NextAudio ==
    \/ \E sid \in StreamSids : AudioStart(sid)
    \/ \E size \in MediaSizes, sent \in BOOLEAN : AudioMedia(size, sent)
    \/ \E sent \in BOOLEAN : AudioStop(sent)
    \/ AudioClose
    \/ \E c \in ConnIds, sent \in BOOLEAN : AudioSttOpen(c, sent)
    \/ \E c \in ConnIds : AudioSttConnectFails(c)
    \/ \E c \in ConnIds, code \in CloseCodes : AudioSttClose(c, code)

SpecAudio == Init /\ [][NextAudio]_vars

(***************************************************************************)
(* The incremental segmenter of handleUserUtterance: fullResponse, buffer  *)
(* and ttsSegments over the deltas of one LLM stream of a session that is  *)
(* not stopped.                                                            *)
(***************************************************************************)
\* the chunks a stream is made of: a sentence of five words and the start
\* of the next, five words, a chunk that begins with white space, fifteen
\* words without a mark, a sentence of one word
Deltas ==
    { <<"a"," ","b"," ","c"," ","d"," ","e","."," ","f"," ">>,
      <<"g"," ","h"," ","i"," ","j"," ","k">>,
      <<" ","l"," ","m"," ","n","!","\n","o"," ","p">>,
      <<"a"," ","b"," ","c"," ","d"," ","e"," ","f"," ","g"," ","h"," ",
        "i"," ","j"," ","k"," ","l"," ","m"," ","n"," ","o">>,
      <<"x","."," ">> }

\* s.split(/\s+/).filter(Boolean)
RECURSIVE Words(_)
Words(s) ==
    LET t == TrimStart(s)
        ends == {i \in 1..Len(t) : t[i] \in Whitespace}
        k == IF ends = {} THEN Len(t) + 1
             ELSE CHOOSE i \in ends : \A j \in ends : i <= j
    IN  IF t = <<>> THEN <<>>
        ELSE <<SubSeq(t, 1, k - 1)>> \o Words(SubSeq(t, k, Len(t)))

\* words.join(" ")
RECURSIVE Join(_)
Join(words) ==
    IF words = <<>> THEN <<>>
    ELSE IF Len(words) = 1 THEN words[1]
    ELSE words[1] \o <<" ">> \o Join(Tail(words))

\* trimmed.match(/^(.+?[.!?])\s+/s): the index of the mark that closes the
\* shortest match, 0 for no match
sentMatch(trimmed) ==
    LET marks == {k \in 2..(Len(trimmed) - 1) :
                     /\ trimmed[k] \in {".", "!", "?"}
                     /\ trimmed[k + 1] \in Whitespace}
    IN  IF marks = {} THEN 0
        ELSE CHOOSE k \in marks : \A j \in marks : k <= j

\* the for (;;) loop of lines 192-205
RECURSIVE Segmented(_)
Segmented(s) ==
    LET trimmed == Trim(s.buffer)
        words == Words(trimmed)
        k == sentMatch(trimmed)
        segment ==
            IF k # 0 THEN Trim(SubSeq(trimmed, 1, k))
            ELSE IF Len(words) >= TTS_FIRST_CHUNK_WORDS
            THEN Join(SubSeq(words, 1, TTS_FIRST_CHUNK_WORDS))
            ELSE <<>>
        \* trimmed.slice(sentMatch[0].length): past the mark and the white
        \* space that follows it
        rest == TrimStart(SubSeq(trimmed, k + 1, Len(trimmed)))
    IN  IF segment = <<>> THEN s
        ELSE Segmented(
                 [s EXCEPT
                     !.ttsSegments =
                         IF Len(Words(segment)) >= TTS_MIN_WORDS
                         THEN Append(@, segment) ELSE @,
                     !.buffer =
                         IF k # 0 THEN rest
                         ELSE Join(SubSeq(words, TTS_FIRST_CHUNK_WORDS + 1,
                                          Len(words)))])

\* one chunk of the for await loop; in a stopped session the loop is left
\* and the execution returns (lines 189, 207-210)
SegDelta(chunk) ==
    /\ ~segmenter.done
    /\ segmenter.deltas < MaxDeltas
    /\ segmenter' =
           IF stopped THEN [segmenter EXCEPT !.done = TRUE]
           ELSE Segmented([segmenter EXCEPT !.fullResponse = @ \o chunk,
                                            !.buffer = @ \o chunk,
                                            !.deltas = @ + 1])
    /\ UNCHANGED <<sessionVars, ttsVars, filterCall, playback, recording,
                   replyPlayed, callerAudio>>

\* the stream ends: the remainder and the fallback of lines 212-214, and, for
\* a reply that is not empty in a session that is not stopped, the first
\* pass of the playback loop up to its await (lines 227-237)
SegEnd ==
    /\ ~segmenter.done
    /\ LET remainder == Trim(segmenter.buffer)
           withRest ==
               IF /\ remainder # <<>>
                  /\ Len(Words(remainder)) >= TTS_MIN_WORDS
               THEN Append(segmenter.ttsSegments, remainder)
               ELSE segmenter.ttsSegments
           full == Trim(segmenter.fullResponse)
           segments == IF withRest = <<>> /\ full # <<>>
                       THEN <<full>> ELSE withRest
       IN  IF stopped
           THEN /\ segmenter' = [segmenter EXCEPT !.done = TRUE]
                /\ UNCHANGED ttsVars
           ELSE IF full = <<>>
           THEN /\ segmenter' = [segmenter EXCEPT !.ttsSegments = segments,
                                                  !.done = TRUE]
                /\ UNCHANGED ttsVars
           ELSE /\ segmenter' = [segmenter EXCEPT !.ttsSegments = segments,
                                                  !.done = TRUE, !.i = 1]
                /\ Enqueue(segments[1])
    /\ UNCHANGED <<sessionVars, filterCall, playback, recording, replyPlayed,
                   callerAudio>>

\* textToSpeech(ttsSegments[i]) resolves: the rest of that pass of the
\* playback loop, and the next pass up to its await (lines 236-247)
SegResolved(len) ==
    /\ segmenter.i > 0
    /\ jobs[segmenter.i].state = "done"
    /\ LET i == segmenter.i
           audio == IF jobs[i].result = "buffer" THEN len ELSE Null
           frames == ReplyPlayback(audio)
           more == i < Len(segmenter.ttsSegments) /\ ~stopped
       IN  /\ out' = Media("reply", frames)
           /\ segmenter' =
                  [segmenter EXCEPT
                      !.played = IF frames > 0 THEN Append(@, i) ELSE @,
                      !.i = IF more THEN i + 1 ELSE 0]
           /\ IF more THEN Enqueue(segmenter.ttsSegments[i + 1])
              ELSE UNCHANGED ttsVars
    /\ lastEvent' = Event("tts_resolve")
    /\ UNCHANGED << sarvamApiKey, stopped, aborted, wsOpen, streamSid,
                    pcmBufferBytes, sarvamSocket, sarvamHadError, conns,
                    conversationHistory, lastTranscript, transcripts,
                    silenceTimer, pipelineProcessing, llmTurns, ttsWaiters,
                    flushedBy, flushedTwice, lateHandled, cancelledMidStream,
                    dark >>
    /\ UNCHANGED <<filterCall, playback, recording, replyPlayed, callerAudio>>

\* SpecSegmenter: one reply from its first delta to the end of its
\* playback, in a session that may be started and stopped meanwhile; the
\* synthesis of the welcome is left to SpecWelcome
NextSegmenter ==
    \/ \E chunk \in Deltas : SegDelta(chunk)
    \/ SegEnd
    \/ \E len \in AudioLens : SegResolved(len)
    \/ \E j \in JobIds : JobStart(j)
    \/ \E j \in JobIds, outcome \in ConvertOutcomes : ConvertReturns(j, outcome)
    \/ \E j \in JobIds : BackoffElapsed(j)
    \/ \E sid \in StreamSids : WsStart(sid) /\ UNCHANGED <<ttsVars, unitVars>>
    \/ WsStop(TRUE) /\ UNCHANGED <<ttsVars, unitVars>>

SpecSegmenter == Init /\ [][NextSegmenter]_vars

(***************************************************************************)
(* Properties.                                                             *)
(***************************************************************************)
UserTurns(h) == Cardinality({i \in 1..Len(h) : h[i].role = "user"})

\* a user turn of the history that no assistant turn follows immediately
Dangling(h, i) ==
    /\ h[i].role = "user"
    /\ (i = Len(h) \/ h[i + 1].role # "assistant")

\* C1: at most one execution of handleUserUtterance is between pushing its
\* user turn and returning, whatever the interleaving of transcripts,
\* speech_end, close 1000 and silence-timer expiries.
AtMostOneTurnInFlight == InFlightCount <= 1

\* C2: speech_end and the silence timer, both occurring for one utterance,
\* hand it to the LLM once: the trigger that comes second is a no-op.
UtteranceFlushedOnce == ~flushedTwice

\* C3: when stop or WS close came while an LLM stream was in progress and
\* every execution of handleUserUtterance has returned, every user turn of
\* the history is immediately followed by an assistant turn.
NoDanglingUserTurn ==
    (cancelledMidStream /\ stopped /\ ~TurnInFlight)
        => \A i \in 1..Len(conversationHistory) :
               ~Dangling(conversationHistory, i)

\* C4: once stopped is true no step starts an LLM request and no step adds a
\* user turn to the history, whichever trigger fires.
NoPipelineAfterStopped ==
    [][stopped =>
          /\ \A k \in TurnKinds : llmTurns'[k] <= llmTurns[k]
          /\ UserTurns(conversationHistory') <= UserTurns(conversationHistory)
      ]_vars

\* C4, its case: speech_end arrives with an utterance the filter accepts
\* while the session is stopped.
TriggerAfterStopped ==
    /\ stopped
    /\ lastEvent.name = "speech_end"
    /\ Accepted(lastTranscript)

\* C5: no media message is written to the telephony WebSocket by a step
\* taken while stopped is true.
NoMediaAfterStopped == out.frames > 0 => ~stopped

\* C5, its case: a segment of a reply is synthesised, with audio, after the
\* session was stopped.
SegmentReadyAfterStopped ==
    /\ stopped
    /\ lastEvent.name = "tts_resolve"
    /\ lastEvent.code # Null
    /\ out.src = "reply"

Started(j) == jobs[j].state \in {"calling", "backoff", "done"}
Running(j) == jobs[j].state \in {"calling", "backoff"}

\* C6: a TTS job has started only if every call of textToSpeech made before
\* its own has finished, so at most one job runs at any time.
TtsJobsSerial ==
    /\ \A j \in JobIds :
           Started(j) => \A i \in 1..(j - 1) : jobs[i].state = "done"
    /\ Cardinality({j \in JobIds : Running(j)}) <= 1

\* C6, its case: a job is running after an earlier job that needed a retry,
\* while a later call waits.
JobRunsAfterRetriedJob ==
    \E i, j, k \in JobIds :
        /\ i < j /\ j < k
        /\ jobs[i].state = "done" /\ jobs[i].attempt > 0
        /\ Running(j)
        /\ jobs[k].state = "queued"

\* C7: every call of textToSpeech resolves, with a buffer exactly when the
\* provider returned audio and with null otherwise, and every call queued
\* behind a failed job resolves too.
TtsNeverRejects ==
    /\ [](\A j \in JobIds :
             jobs[j].state = "done" =>
                 /\ jobs[j].result \in {"buffer", "null"}
                 /\ jobs[j].result = "buffer" <=> jobs[j].last = "audio")
    /\ \A j \in JobIds : jobs[j].state = "queued" ~> jobs[j].state = "done"

\* C7, its case: a job failed on every attempt and resolved with null, a job
\* got a response without audio, and a job queued behind them got audio.
LaterJobAfterFailedJobs ==
    \E i, j, k \in JobIds :
        /\ i # j /\ i < k /\ j < k
        /\ jobs[i].state = "done" /\ jobs[i].last = "throw"
        /\ jobs[i].attempt = MAX_RETRIES /\ jobs[i].result = "null"
        /\ jobs[j].state = "done" /\ jobs[j].last = "empty"
        /\ jobs[j].result = "null"
        /\ jobs[k].state = "done" /\ jobs[k].result = "buffer"

\* C8: the close handler of an STT upstream starts a reconnect if and only
\* if the close code is 1000, the session is not stopped and no error
\* message was received on the connection that closed.
ReconnectIffCleanClose ==
    lastEvent.name = "stt_close" =>
        (lastEvent.reconnect <=>
            (lastEvent.code = NORMAL_CLOSURE /\ ~stopped /\ ~lastEvent.err))

\* C9: once an STT upstream closed with a code other than 1000, or closed
\* after an error message, no STT connection is opened and no transcript is
\* added to the transcript list.
DarkStaysDark ==
    [][dark =>
          /\ \A c \in ConnIds :
                 conns'[c].status = "connecting" => conns[c].status = "connecting"
          /\ Len(transcripts') <= Len(transcripts)
      ]_vars

\* C10: a transcript that arrived while an execution of handleUserUtterance
\* was in flight is never handed to the LLM.
LateUtteranceDropped == ~lateHandled

\* the utterance filter turns the text down: blank, shorter than eight
\* characters, or a filler word
Rejected(e) == Trim(e.text) = <<>> \/ isFillerOrTooShort(e.text)

\* C11: a step in which speech_end, the silence timer or a close with code
\* 1000 selects a text that the filter rejects starts no LLM request, leaves
\* the history as it is and sends no media.
FilterRejectsQuietly ==
    [][(\/ lastEvent'.name = "speech_end" /\ Rejected(lastTranscript')
        \/ lastEvent'.name = "timer" /\ Rejected(toProcess)
        \/ /\ lastEvent'.name = "stt_close"
           /\ lastEvent'.code = NORMAL_CLOSURE
           /\ Rejected(toProcess))
          => /\ llmTurns' = llmTurns
             /\ conversationHistory' = conversationHistory
             /\ out'.frames = 0
      ]_vars

\* C11, its case: the silence timer expired on a session that is neither
\* stopped nor busy and whose longest transcript is a filler word.
FillerReachedTheFilter ==
    /\ lastEvent.name = "timer"
    /\ ~stopped /\ ~pipelineProcessing
    /\ transcripts # <<>>
    /\ Trim(toProcess.text) # <<>>
    /\ Rejected(toProcess)

\* e is at least as long as every transcript of the list
Longest(e, list) ==
    \A k \in 1..Len(list) : Len(list[k].text) <= Len(e.text)

\* C13: whichever trigger flushes, the text it hands to the filter is of
\* maximal length among the transcripts accumulated in the list.
FlushTakesLongest ==
    [][/\ lastEvent'.name = "speech_end"
             => Longest(lastTranscript', transcripts')
       /\ lastEvent'.name = "timer" => Longest(toProcess, transcripts)
       /\ (lastEvent'.name = "stt_close" /\ lastEvent'.code = NORMAL_CLOSURE)
             => Longest(toProcess, transcripts)
      ]_vars

\* C19: a message that is malformed, a connected event or an event of
\* unknown name changes nothing of the session and sends nothing.
IgnoredMessagesChangeNothing ==
    [][WsIgnored =>
          /\ UNCHANGED << stopped, aborted, wsOpen, streamSid,
                          conversationHistory, lastTranscript, transcripts,
                          pcmBufferBytes, silenceTimer, sarvamSocket, conns,
                          sarvamHadError, pipelineProcessing, llmTurns,
                          ttsWaiters, recording >>
          /\ out' = NoOut
      ]_vars

\* C19, its case: an ignored message came right after a playback step of a
\* session that is open, not stopped and has no LLM stream; no other handler
\* leaves lastEvent as it is there.
IgnoredAfterPlayback ==
    /\ lastEvent.name = "tts_resolve"
    /\ out = NoOut
    /\ wsOpen /\ ~stopped
    /\ Streaming = 0

\* C12: the filter rejects every filler word in any letter case and with any
\* trailing run of punctuation, and accepts every other text whose trimmed
\* length is at least eight.
FilterDecides ==
    filterCall.result # "none" =>
        /\ filterCall.word \in FILLER_WORDS => filterCall.result = "reject"
        /\ (/\ filterCall.word \notin FILLER_WORDS
            /\ Len(Trim(filterCall.input)) >= MIN_UTTERANCE_LENGTH)
               => filterCall.result = "accept"

\* C12, its case: "OKAY" followed by eight punctuation marks, which is long
\* enough to pass the length test, was rejected.
ShoutedFillerRejected ==
    /\ filterCall.result = "reject"
    /\ filterCall.input = <<"O","K","A","Y",",",".","!","?",",",".","!","?">>

RECURSIVE SumSeq(_)
SumSeq(s) == IF s = <<>> THEN 0 ELSE Head(s) + SumSeq(Tail(s))

\* C14: a buffer of L bytes played to a live session goes out as ceil(L/320)
\* media messages of at most 160 mu-law bytes, all but the last of exactly
\* 160, which sum to L/2.
PacerEmitsCeilFrames ==
    (playback.live /\ playback.done) =>
        /\ Len(playback.sent) = (playback.len + 319) \div 320
        /\ \A i \in 1..Len(playback.sent) :
               /\ playback.sent[i] <= 160
               /\ i < Len(playback.sent) => playback.sent[i] = 160
        /\ 2 * SumSeq(playback.sent) = playback.len

\* C14, its case: a buffer of 1000 bytes was played to a live session in
\* four messages, the last one of 20 bytes.
ShortLastFramePlayed ==
    /\ playback.live /\ playback.done
    /\ playback.len = 1000
    /\ playback.sent = <<160, 160, 160, 20>>

\* C15: every media message sent to the caller carries exactly 160 mu-law
\* bytes, whatever the length of the buffer.
EveryFrameIs20ms ==
    \A i \in 1..Len(playback.sent) : playback.sent[i] = 160

\* C16: no media message is sent while no start event has supplied a stream
\* identifier, and every media message carries the identifier stored by the
\* most recent start event (state.streamSid is written by the start case
\* only).
MediaCarriesStartSid ==
    out.frames > 0 => (streamSid # NoSid /\ out.sid = streamSid)

\* C16, its case: after a repeated start (two upstream connections were
\* requested) the welcome went out under the second identifier.
WelcomeUnderSecondSid ==
    /\ out.src = "welcome" /\ out.frames > 0
    /\ out.sid = "MZdef"
    /\ Cardinality({c \in ConnIds : conns[c] # NoSocket}) = 2

\* C17: a WS close does to the STT upstream what a stop message does: when
\* the session is not yet stopped and PCM is buffered for an open upstream,
\* the closing step hands the buffer to transcribe() before it closes the
\* upstream.
CloseFlushesLikeStop ==
    [][ ( /\ wsOpen /\ ~wsOpen'
          /\ ~stopped
          /\ Transcribes(sarvamSocket, conns, pcmBufferBytes) )
        => out'.transcribe ]_vars

\* C18: for a call that received media there is no state in which a raw file
\* has been removed and no WAV file has been written for it.
RawRemovedOnlyAfterWav ==
    recording.media =>
        \A id \in RecIds : recording.raw[id] = "removed" => recording.wav[id]

\* C20: when the synthesis of a welcome returns audio and the session is
\* not stopped by then, the welcome is sent to the caller, and no media
\* message of a reply was sent before it.
WelcomePlayedFirst ==
    [][ ( /\ ttsWaiters # <<>> /\ ttsWaiters' # ttsWaiters
          /\ out'.src = "welcome"
          /\ lastEvent'.name = "tts_resolve" /\ lastEvent'.code # Null
          /\ ~stopped )
        => (out'.frames > 0 /\ ~replyPlayed) ]_vars

\* C26: the filter rejects every text whose length after trimming is below
\* eight characters, texts padded with white space to eight or more
\* characters included.
TrimmedShortRejected ==
    (filterCall.result # "none"
         /\ Len(Trim(filterCall.input)) < MIN_UTTERANCE_LENGTH)
        => filterCall.result = "reject"

\* C24: after a speech_start event the assembler holds nothing: the list of
\* transcripts is empty and the last transcript is empty, so a flush that
\* follows without a new transcript selects no text.
SpeechStartClearsAssembler ==
    lastEvent.name = "speech_start" =>
        /\ transcripts = <<>>
        /\ lastTranscript = NoEntry
        /\ toProcess.text = NoText

\* the calls of client.textToSpeech.convert job j has made
ProviderCalls(j) ==
    IF jobs[j].state = "calling" \/ jobs[j].last # "none"
    THEN jobs[j].attempt + 1
    ELSE 0

\* C29 as stated: one TTS job calls the provider at most MAX_RETRIES = 2
\* times in all before it resolves with null.
AtMostMaxRetriesCalls ==
    \A j \in JobIds : ProviderCalls(j) <= MAX_RETRIES

\* C29: one TTS job calls the provider at most 1 + MAX_RETRIES = 3 times, a
\* call after the first follows a wait of RETRY_DELAY_MS, and a job whose
\* calls all throw resolves with null after the third.
OneCallAndMaxRetries ==
    [][ \A j \in JobIds :
          /\ ProviderCalls(j)' <= MAX_RETRIES + 1
          /\ jobs'[j].attempt # jobs[j].attempt
             => /\ jobs[j].state = "backoff"
                /\ jobs'[j].state = "calling"
                /\ jobs'[j].attempt = jobs[j].attempt + 1
          /\ ( /\ jobs[j].state = "calling"
               /\ jobs'[j].state = "done"
               /\ jobs'[j].last = "throw" )
             => /\ jobs'[j].result = "null"
                /\ ProviderCalls(j)' = MAX_RETRIES + 1
      ]_vars

\* C29, its case: a job gave up after its third call threw.
GaveUpAfterThreeCalls ==
    \E j \in JobIds :
        /\ jobs[j].state = "done"
        /\ jobs[j].last = "throw"
        /\ jobs[j].result = "null"
        /\ ProviderCalls(j) = 3

\* C22: when the LLM stream of a turn fails while the session is not stopped,
\* the step takes the turn's own user message off the history, which is
\* thereby what it was before the turn, records no assistant turn, asks for
\* no synthesis and leaves the session live.
LlmErrorUndoesTurn ==
    [][ ( /\ lastEvent'.name = "llm_throw"
          /\ llmTurns' # llmTurns
          /\ ~stopped )
        => /\ conversationHistory # <<>>
           /\ conversationHistory' = Pop(conversationHistory)
           /\ \E turn \in TurnKinds :
                  /\ llmTurns'[turn] = llmTurns[turn] - 1
                  /\ conversationHistory[Len(conversationHistory)] =
                         [role |-> "user", content |-> turn.text]
           /\ ttsWaiters' = ttsWaiters
           /\ out' = NoOut
           /\ ~stopped' ]_vars

\* C23: every transcript that arrives while the session is not stopped is
\* appended to the list of transcripts and leaves the silence timer armed
\* anew, so that a flush is attempted 1200 ms after the last transcript.
TranscriptRestartsTimer ==
    [][ ( /\ lastEvent'.name \in {"transcript", "speech_end"}
          /\ lastTranscript' # lastTranscript \/ transcripts' # transcripts
          /\ ~stopped )
        => ( /\ Len(transcripts') = Len(transcripts) + 1
             /\ transcripts'[Len(transcripts')] = lastTranscript'
             /\ silenceTimer' ) ]_vars

\* C25: when the STT upstream closes with code 1000 while the session is not
\* stopped, no execution of handleUserUtterance is in flight and the
\* assembler holds a text that passes the filter, the closing step starts
\* exactly one pipeline, for that text, empties the list of transcripts,
\* leaves the silence timer cancelled and, unless an error message was seen,
\* requests the new upstream connection.
CleanCloseFlushesAndReconnects ==
    [][ ( /\ lastEvent'.name = "stt_close"
          /\ lastEvent'.code = NORMAL_CLOSURE
          /\ ~stopped
          /\ ~TurnInFlight
          /\ ~Rejected(toProcess) )
        => ( /\ InFlightCount' = 1
             /\ llmTurns'[Turn(Trim(toProcess.text), TRUE)] = 1
             /\ conversationHistory' =
                    Append(conversationHistory,
                           [role |-> "user", content |-> Trim(toProcess.text)])
             /\ pipelineProcessing'
             /\ transcripts' = <<>>
             /\ ~silenceTimer'
             /\ (sarvamApiKey /\ ~sarvamHadError) =>
                    /\ lastEvent'.reconnect
                    /\ \E c \in ConnIds : conns'[c].status = "connecting" ) ]_vars

\* C25, its case: a close with code 1000 was the first trigger to hand the
\* utterance to the LLM, and the reconnect was requested by the same step.
CloseStartedPipeline ==
    /\ lastEvent.name = "stt_close"
    /\ lastEvent.code = NORMAL_CLOSURE
    /\ lastEvent.reconnect
    /\ flushedBy = "close"
    /\ pipelineProcessing
    /\ InFlightCount = 1
    /\ transcripts = <<>>
    /\ \E c \in ConnIds : conns[c].status = "connecting"

IsPrefix(s, t) == Len(s) <= Len(t) /\ \A i \in 1..Len(s) : s[i] = t[i]

RECURSIVE TotalLen(_)
TotalLen(chunks) ==
    IF chunks = <<>> THEN 0 ELSE Head(chunks).len + TotalLen(Tail(chunks))

UpstreamOpen ==
    IF sarvamSocket = NoConn THEN FALSE ELSE conns[sarvamSocket].status = "open"

\* C21: whatever reconnects and failed sends occur, the chunks passed to the
\* STT upstream, in the order of the transcribe() calls, are a prefix of the
\* decoded media frames in the order of their arrival: none is reordered,
\* none is sent twice.
UpstreamIsPrefixOfInbound ==
    IsPrefix(callerAudio.upstream, callerAudio.inbound)

\* C21, its case: four frames went upstream, the last two in the flush that
\* follows the opening of a later connection.
FramesSentAcrossReconnect ==
    /\ lastEvent.name = "stt_open"
    /\ callerAudio.lastSend = "ok"
    /\ Len(callerAudio.payload) = 2
    /\ Len(callerAudio.upstream) = 4

\* C27: pcmBufferBytes is the total length of the chunks in pcmBuffer, and
\* after a media event with the upstream set and open and no failed send the
\* buffer holds fewer than 3200 bytes.
BufferBelowThreshold ==
    /\ pcmBufferBytes = TotalLen(callerAudio.pcmBuffer)
    /\ ( /\ lastEvent.name = "media"
         /\ UpstreamOpen
         /\ callerAudio.lastSend # "failed" )
       => pcmBufferBytes < 3200

\* C27, its case: a media event brought the buffer to 200 ms, which were
\* sent, after an earlier send had failed.
ThresholdFlushAfterMedia ==
    /\ lastEvent.name = "media"
    /\ UpstreamOpen
    /\ callerAudio.lastSend = "ok"
    /\ Len(callerAudio.payload) = 2
    /\ pcmBufferBytes = 0

RECURSIVE SegmentWords(_)
SegmentWords(segments) ==
    IF segments = <<>> THEN <<>>
    ELSE Words(Head(segments)) \o SegmentWords(Tail(segments))

RECURSIVE IsSubsequence(_, _)
IsSubsequence(s, t) ==
    IF s = <<>> THEN TRUE
    ELSE IF t = <<>> THEN FALSE
    ELSE IF Head(s) = Head(t) THEN IsSubsequence(Tail(s), Tail(t))
    ELSE IsSubsequence(s, Tail(t))

\* C30: for every sequence of deltas the words of the segments, in the
\* order the segments were pushed, are an order-preserving subsequence of
\* the words of the full reply, each word of the reply taken at most once.
\* (The loop of the segmenter is the recursive operator Segmented, which
\* has a value because every pass shortens the buffer.)
SegmentsInReadingOrder ==
    segmenter.done =>
        IsSubsequence(SegmentWords(segmenter.ttsSegments),
                      Words(segmenter.fullResponse))

\* C31: within one turn the segments are handed to the TTS queue in the
\* order of their emission, the next only after the call for the one before
\* has resolved, and the frames of a segment are sent before those of any
\* later one; a segment whose synthesis gave null sends no frames and the
\* segments after it are requested and played as without it.
SegmentsSpokenInOrder ==
    LET s == segmenter IN
    /\ nJobs <= Len(s.ttsSegments)
    /\ \A j \in 1..nJobs : jobs[j].text = s.ttsSegments[j]
    /\ \A j \in 1..(nJobs - 1) : jobs[j].state = "done"
    /\ s.i \in {0, nJobs}
    /\ \A k \in 1..Len(s.played) :
           /\ s.played[k] \in 1..nJobs
           /\ jobs[s.played[k]].result = "buffer"
           /\ s.played[k] # s.i
           /\ k > 1 => s.played[k - 1] < s.played[k]
    /\ (s.done /\ s.i = 0 /\ ~stopped /\ Trim(s.fullResponse) # <<>>)
       => nJobs = Len(s.ttsSegments)

\* C31, its case: of three segments the second was skipped for a null
\* synthesis and the first and the third were played, in that order.
NullSegmentSkipped ==
    /\ segmenter.played = <<1, 3>>
    /\ jobs[2].result = "null"
    /\ segmenter.i = 0

\* C32: the stream of a reply of more than one segment completes after the
\* synthesis of its first segment has been requested.
FirstSegmentRequestedWhileStreaming ==
    [][ ( /\ ~segmenter.done
          /\ segmenter'.done
          /\ ~stopped
          /\ Len(segmenter'.ttsSegments) > 1 )
        => nJobs >= 1 ]_vars

\* C39: a turn that has returned in a session that is not stopped and has
\* its API key, with a reply that is not empty, has made at least one
\* provider call for a segment of the reply.
ReplyReachesProvider ==
    ( /\ segmenter.done
      /\ segmenter.i = 0
      /\ Trim(segmenter.fullResponse) # <<>>
      /\ ~stopped
      /\ sarvamApiKey )
    => \E j \in 1..nJobs : ProviderCalls(j) >= 1

\* C40: in a stopped session no job of the session goes to the provider:
\* neither a job waiting in the queue nor one between two attempts.
NoProviderCallAfterStopped ==
    [][ stopped =>
          \A j \in JobIds :
              jobs'[j].state = "calling" => jobs[j].state = "calling" ]_vars

\* C34: the message list of the request a turn makes is the conversation
\* history at that moment, which ends with the user utterance of the turn,
\* once.
RequestCarriesTheHistory ==
    [][ \A turn \in TurnKinds :
            llmTurns'[turn] > llmTurns[turn]
            => messages(turn.text, conversationHistory') = conversationHistory'
      ]_vars

\* C35: while no execution of handleUserUtterance is in flight the history
\* has even length and alternates user, assistant, user, assistant, ...
HistoryAlternatesAtRest ==
    ~TurnInFlight =>
        /\ Len(conversationHistory) % 2 = 0
        /\ \A k \in 1..Len(conversationHistory) :
               conversationHistory[k].role =
                   IF k % 2 = 1 THEN "user" ELSE "assistant"

\* C36: a close with code 1000 that arrives after an utterance was flushed
\* and its turn has returned, with no transcript received since the flush
\* and none in the list, starts no turn.
CloseAfterFlushStartsNothing ==
    [][ ( /\ lastEvent'.name = "stt_close"
          /\ lastEvent'.code = NORMAL_CLOSURE
          /\ flushedBy # "none"
          /\ transcripts = <<>>
          /\ ~TurnInFlight
          /\ ~pipelineProcessing )
        => llmTurns' = llmTurns ]_vars

\* C37: once stop has been handled, no message on the WebSocket adds to the
\* PCM buffer or opens an STT connection.
StoppedIgnoresStartAndMedia ==
    [][ (stopped /\ wsOpen)
        => /\ pcmBufferBytes' = pcmBufferBytes
           /\ \A c \in ConnIds :
                  conns'[c].status = "connecting"
                  => conns[c].status = "connecting" ]_vars

\* C38: the close handler of one upstream leaves the session's reference to
\* another upstream, which is still open, in place.
CloseKeepsOtherUpstream ==
    [][ ( /\ lastEvent'.name = "stt_close"
          /\ UpstreamOpen
          /\ conns'[sarvamSocket].status = "open" )
        => sarvamSocket' = sarvamSocket ]_vars

\* an execution of handleUserUtterance started by the silence timer or by
\* the close-1000 fallback has not returned
GuardedInFlight ==
    \/ \E turn \in TurnKinds : turn.guarded /\ llmTurns[turn] > 0
    \/ \E k \in 1..Len(ttsWaiters) :
           ttsWaiters[k].kind = "reply" /\ ttsWaiters[k].turn.guarded

\* C33: pipelineProcessing is true from the moment the silence timer or the
\* close-1000 fallback starts a pipeline until that pipeline returns, by
\* whatever path, and false once it has returned; when LLM streams end and
\* syntheses resolve, a flag that is true is false again later.
FlagFollowsPipeline ==
    /\ [](pipelineProcessing <=> GuardedInFlight)
    /\ pipelineProcessing ~> ~pipelineProcessing

\* C33, its case: a pipeline started by the silence timer has returned after
\* its LLM stream threw, and the flag is false.
FlagClearedAfterLlmError ==
    /\ lastEvent.name = "llm_throw"
    /\ flushedBy = "silence"
    /\ ~GuardedInFlight
    /\ ~pipelineProcessing

====
